---- MODULE Spec2Model ----
(***************************************************************************)
(* Model of the task queue of amazon_ai_queue:                             *)
(*   app/queue_manager.py  QueueManager over a Redis list and Redis keys   *)
(*   app/main.py           queue_processor and process_next_task           *)
(*                                                                         *)
(* Seven specifications share the variables:                                *)
(*   Spec         the QueueManager methods, each call atomic, any caller   *)
(*   FaultSpec    the same over a store whose calls can raise              *)
(*   QuerySpec    the queue with get_queue_position and get_stats, over    *)
(*                the change of the UTC day                                *)
(*   WorkersSpec  add_task and get_next_task as their store commands,      *)
(*                interleaved between one submitter and several workers    *)
(*   WorkerSpec   the program of main.py: the worker loop over the queue   *)
(*   ProcessorSpec  queue_processor with exceptions reaching its outer     *)
(*                guard                                                    *)
(*   AgentSpec    app/agent.py: analyze_products and analyze_keyword over  *)
(*                the outcomes of their collaborators                      *)
(*                                                                         *)
(* The Redis list amazon:queue:tasks is the sequence `queue`; index 1 is   *)
(* the left end (LPUSH side), index Len is the right end (RPUSH / BRPOP    *)
(* side).  A Redis string key is a sequence of length 0 (key absent) or 1  *)
(* (key present, holding the decoded JSON document).  json.dumps followed  *)
(* by json.loads is exact for the documents stored here (dicts of strings  *)
(* and integers), so documents are kept as records.                        *)
(*                                                                         *)
(* No branch of the code reads a timestamp back, so every                   *)
(* datetime.utcnow().isoformat() value is the one token UtcNow: a document *)
(* records which timestamp fields it carries, not their values.  A key     *)
(* written by SETEX may expire at any later moment (the 86400 s TTL is not *)
(* counted).                                                               *)
(***************************************************************************)
EXTENDS Integers, Sequences, FiniteSets, TLC

\* ---------------------------------------------------------------- bounds
MaxTasks == 2
MaxSaves == 2
NumWorkers == 2
MaxFaults == 1
MaxProducts == 2

\* ------------------------------------------------------------ input sets
TaskIds == 1..MaxTasks
Priorities == {"normal", "high"}
TaskTypes == {"product_analysis", "keyword_analysis", "other"}
\* payloads: with the key its handler reads (data["products"], data["keyword"])
\* or without it
Payloads == {"complete", "missing_key"}
ClientId == "client"
Workers == 1..NumWorkers
UtcNow == "utcnow"

\* results handed to the result store: a handler's success dict (no "error"
\* key) and the failure dict {"error": ..., "status": "failed"} of
\* process_next_task (an "error" key is the error marker)
ResultSuccess == [status |-> "success", error |-> FALSE]
ResultFailed == [status |-> "failed", error |-> TRUE]
Results == {ResultSuccess, ResultFailed}

VARIABLES
    queue,        \* Redis list amazon:queue:tasks, serialized task documents
    status,       \* Redis keys amazon:status:<task_id>
    result,       \* Redis keys amazon:result:<task_id>
    processed_today,  \* Redis key processed:<today>
    total_processed,  \* Redis key amazon:stats:total_processed
    issued,       \* number of task ids add_task has generated
    delivered,    \* task ids in the order get_next_task returned them
    priority_of,  \* per task id, the priority add_task was given
    status_log,   \* per task, the successive values of its stored status
    ret,          \* the last call and the value it returned
    qp,           \* queue_processor: its locals and where it stands
    raising_taken,    \* the worker has taken a task whose dispatch raises
    workers,      \* get_next_task callers running side by side
    submit,       \* an add_task call between its store commands
    faults        \* number of store calls that have raised

vars == <<queue, status, result, processed_today, total_processed, issued,
          delivered, priority_of, status_log, ret, qp, raising_taken,
          workers, submit, faults>>

\* state of the worker loop of main.py
worker_vars == <<qp, raising_taken>>

\* state of callers observed between their store commands
client_vars == <<workers, submit>>

store == <<queue, status, result, processed_today, total_processed>>

\* ----------------------------------------------------------- Redis verbs
Nil == <<>>

LPush(list, x) == <<x>> \o list

RPush(list, x) == Append(list, x)

\* BRPOP: the element at the right end, Nil when the list stays empty
BRPopValue(list) == IF list = <<>> THEN Nil ELSE <<list[Len(list)]>>

BRPopRest_peek(list) == list

BRPopRest(list) == IF list = <<>> THEN list ELSE SubSeq(list, 1, Len(list) - 1)

SetEx(keys, k, doc) == [keys EXCEPT ![k] = <<doc>>]

Get(keys, k) == keys[k]

Expired(keys, k) == [keys EXCEPT ![k] = Nil]

\* ---------------------------------------------------------- QueueManager
\* get_queue_position: 1-based index from the left end, 0 when absent
RECURSIVE PositionFrom(_, _, _)
PositionFrom(list, task_id, i) ==
    IF i > Len(list) THEN 0
    ELSE IF list[i].task_id = task_id THEN i
    ELSE PositionFrom(list, task_id, i + 1)

get_queue_position_from_tail(list, task_id) ==
    IF PositionFrom(list, task_id, 1) = 0 THEN 0
    ELSE Len(list) + 1 - PositionFrom(list, task_id, 1)

get_queue_position(list, task_id) == PositionFrom(list, task_id, 1)

\* get_queue_size: LLEN
get_queue_size(list) == Len(list)

\* get_stats; `processed` is the value of the key processed:<today>, 0 when
\* the key is absent (int(None or "0"))
get_stats_flat(list, processed) ==
    [queue_size |-> get_queue_size(list), active_workers |-> 1,
     processed_today |-> processed, avg_wait_seconds |-> 10]

get_stats(list, processed) ==
    [queue_size |-> get_queue_size(list), active_workers |-> 1,
     processed_today |-> processed,
     avg_wait_seconds |-> get_queue_size(list) * 10]

\* add_task, lines 48-52: where the serialized task goes
InsertByPriority_tail(list, task) == RPush(list, task)

InsertByPriority(list, task) ==
    IF task.priority = "high" THEN LPush(list, task) ELSE RPush(list, task)

\* the status value save_result stores, whatever the results are
SavedStatus(results) == "completed"

\* _get_status_message
StatusMessage(st) ==
    CASE st.status = "queued" -> "Task is waiting in queue"
      [] st.status = "processing" -> "Task is being processed"
      [] st.status = "completed" -> "Task completed successfully"
      [] st.status = "failed" -> "Task failed to process"
      [] OTHER -> "Unknown status"

\* status.get("queue_position"): None when the document has no such key
QueuePositionOf(st) ==
    IF "queue_position" \in DOMAIN st THEN <<st.queue_position>> ELSE Nil

\* get_result: the value returned
get_result_swapped(results, statuses, task_id) ==
    IF Get(statuses, task_id) # Nil
    THEN LET st == Get(statuses, task_id)[1]
         IN [kind |-> "snapshot", task_id |-> task_id, status |-> st.status,
             message |-> StatusMessage(st), queue_position |-> QueuePositionOf(st)]
    ELSE IF Get(results, task_id) # Nil
    THEN [kind |-> "result", doc |-> Get(results, task_id)[1]]
    ELSE [kind |-> "None"]

get_result_unknown(results, statuses, task_id) ==
    IF Get(results, task_id) # Nil
    THEN [kind |-> "result", doc |-> Get(results, task_id)[1]]
    ELSE LET st == IF Get(statuses, task_id) # Nil
                   THEN Get(statuses, task_id)[1]
                   ELSE [status |-> "unknown"]
         IN [kind |-> "snapshot", task_id |-> task_id, status |-> st.status,
             message |-> StatusMessage(st), queue_position |-> QueuePositionOf(st)]

get_result(results, statuses, task_id) ==
    IF Get(results, task_id) # Nil
    THEN [kind |-> "result", doc |-> Get(results, task_id)[1]]
    ELSE IF Get(statuses, task_id) # Nil
    THEN LET st == Get(statuses, task_id)[1]
         IN [kind |-> "snapshot", task_id |-> task_id, status |-> st.status,
             message |-> StatusMessage(st), queue_position |-> QueuePositionOf(st)]
    ELSE [kind |-> "None"]

\* get_result: the result keys it leaves behind (it only reads)
ResultsAfterGet_consumed(results, task_id) == Expired(results, task_id)

ResultsAfterGet(results, task_id) == results

\* the log of a task's stored status values, extended when the value changes
Logged(log, task_id, value) ==
    IF log[task_id] # <<>> /\ log[task_id][Len(log[task_id])] = value
    THEN log
    ELSE [log EXCEPT ![task_id] = Append(@, value)]

Init ==
    /\ queue = <<>>
    /\ status = [t \in TaskIds |-> Nil]
    /\ result = [t \in TaskIds |-> Nil]
    /\ processed_today = 0
    /\ total_processed = 0
    /\ issued = 0
    /\ delivered = <<>>
    /\ priority_of = [t \in TaskIds |-> Nil]
    /\ status_log = [t \in TaskIds |-> <<>>]
    /\ ret = [op |-> "none"]
    /\ qp = [pc |-> "loop", restart_attempts |-> 0, processed_count |-> 0,
             error_count |-> 0, tried |-> 0, processed |-> FALSE,
             logged |-> "none", sleep_time |-> 0, wait_time |-> 0]
    /\ raising_taken = FALSE
    /\ workers = [w \in Workers |-> [pc |-> "idle", task |-> Nil, got |-> <<>>]]
    /\ submit = Nil
    /\ faults = 0

\* add_task(task_type, client_id, data, priority)
AddTask ==
    \E task_type \in TaskTypes, data \in Payloads, priority \in Priorities :
        /\ issued < MaxTasks
        /\ LET task_id == issued + 1
               task_data == [task_id |-> task_id, type |-> task_type,
                             client_id |-> ClientId, data |-> data,
                             priority |-> priority, created_at |-> UtcNow,
                             status |-> "queued"]
               pushed == InsertByPriority(queue, task_data)
               status_data == [status |-> "queued",
                               created_at |-> task_data.created_at,
                               queue_position |-> get_queue_position(pushed, task_id)]
           IN /\ queue' = pushed
              /\ status' = SetEx(status, task_id, status_data)
              /\ status_log' = Logged(status_log, task_id, "queued")
              /\ issued' = task_id
              /\ priority_of' = [priority_of EXCEPT ![task_id] = <<priority>>]
              /\ ret' = [op |-> "add_task", task_id |-> task_id]
        /\ UNCHANGED <<result, processed_today, total_processed, delivered>>
        /\ UNCHANGED <<worker_vars, client_vars, faults>>

\* get_next_task(), a task is popped
GetNextTaskSome ==
    /\ BRPopValue(queue) # Nil
    /\ LET task == BRPopValue(queue)[1]
           status_data == [status |-> "processing", started_at |-> UtcNow,
                           queue_position |-> "0"]
       IN /\ queue' = BRPopRest(queue)
          /\ status' = SetEx(status, task.task_id, status_data)
          /\ status_log' = Logged(status_log, task.task_id, "processing")
          /\ delivered' = Append(delivered, task.task_id)
          /\ ret' = [op |-> "get_next_task", task |-> <<task>>]
    /\ UNCHANGED <<result, processed_today, total_processed, issued,
                   priority_of>>
    /\ UNCHANGED <<worker_vars, client_vars, faults>>

\* get_next_task(), the list stayed empty for the 30 s of BRPOP
GetNextTaskNone_raises ==
    /\ BRPopValue(queue) = Nil
    /\ ret' = [op |-> "get_next_task", task |-> Nil, raised |-> "TypeError"]
    /\ UNCHANGED <<queue, status, result, processed_today, total_processed,
                   issued, delivered, priority_of, status_log>>
    /\ UNCHANGED <<worker_vars, client_vars, faults>>

GetNextTaskNone ==
    /\ BRPopValue(queue) = Nil
    /\ ret' = [op |-> "get_next_task", task |-> Nil]
    /\ UNCHANGED <<queue, status, result, processed_today, total_processed,
                   issued, delivered, priority_of, status_log>>
    /\ UNCHANGED <<worker_vars, client_vars, faults>>

\* save_result(task_id, client_id, results), with _update_stats; the caller
\* records results for a task it took from get_next_task (main.py:176-209)
SaveResult ==
    \E i \in 1..Len(delivered), results \in Results :
        /\ total_processed < MaxSaves
        /\ LET task_id == delivered[i]
               result_data == [task_id |-> task_id, client_id |-> ClientId,
                               results |-> results, completed_at |-> UtcNow,
                               status |-> "completed"]
               status_data == [status |-> SavedStatus(results),
                               completed_at |-> result_data.completed_at]
           IN /\ result' = SetEx(result, task_id, result_data)
              /\ status' = SetEx(status, task_id, status_data)
              /\ status_log' = Logged(status_log, task_id, status_data.status)
              /\ processed_today' = processed_today + 1
              /\ total_processed' = total_processed + 1
              /\ ret' = [op |-> "save_result", task_id |-> task_id]
        /\ UNCHANGED <<queue, issued, delivered, priority_of>>
        /\ UNCHANGED <<worker_vars, client_vars, faults>>

\* get_result(task_id)
GetResult ==
    \E task_id \in TaskIds :
        /\ ret' = [op |-> "get_result", task_id |-> task_id,
                   value |-> get_result(result, status, task_id)]
        /\ result' = ResultsAfterGet(result, task_id)
        /\ UNCHANGED <<queue, status, processed_today, total_processed,
                       issued, delivered, priority_of, status_log>>
        /\ UNCHANGED <<worker_vars, client_vars, faults>>

\* the TTL of a status key runs out
ExpireStatus ==
    \E task_id \in TaskIds :
        /\ status[task_id] # Nil
        /\ status' = Expired(status, task_id)
        /\ ret' = [op |-> "expire"]
        /\ UNCHANGED <<queue, result, processed_today, total_processed,
                       issued, delivered, priority_of, status_log>>
        /\ UNCHANGED <<worker_vars, client_vars, faults>>

\* the TTL of a result key runs out
ExpireResult ==
    \E task_id \in TaskIds :
        /\ result[task_id] # Nil
        /\ result' = Expired(result, task_id)
        /\ ret' = [op |-> "expire"]
        /\ UNCHANGED <<queue, status, processed_today, total_processed,
                       issued, delivered, priority_of, status_log>>
        /\ UNCHANGED <<worker_vars, client_vars, faults>>

\* QueueManager under any caller
Next ==
    \/ AddTask
    \/ GetNextTaskSome
    \/ GetNextTaskNone
    \/ SaveResult
    \/ GetResult
    \/ ExpireStatus
    \/ ExpireResult

Spec == Init /\ [][Next]_vars

\* ------------------------------------------------------------ the queries
\* get_queue_position(task_id)
GetQueuePosition ==
    \E task_id \in TaskIds :
        /\ ret' = [op |-> "get_queue_position", task_id |-> task_id,
                   value |-> get_queue_position(queue, task_id)]
        /\ UNCHANGED <<store, issued, delivered, priority_of, status_log,
                       worker_vars, client_vars, faults>>

\* get_stats()
GetStats ==
    /\ ret' = [op |-> "get_stats",
               value |-> get_stats(queue, processed_today)]
    /\ UNCHANGED <<store, issued, delivered, priority_of, status_log,
                   worker_vars, client_vars, faults>>

\* the UTC day changes: today's key processed:<today> is a new, absent key
\* (_update_stats and get_stats, lines 182-183 and 194-195)
Midnight ==
    /\ processed_today' = 0
    /\ ret' = [op |-> "midnight"]
    /\ UNCHANGED <<queue, status, result, total_processed, issued,
                   delivered, priority_of, status_log, worker_vars,
                   client_vars, faults>>

\* the queue, its counters and the callers that read them
QueryNext ==
    \/ AddTask
    \/ GetNextTaskSome
    \/ GetNextTaskNone
    \/ SaveResult
    \/ GetQueuePosition
    \/ GetStats
    \/ Midnight

QuerySpec == Init /\ [][QueryNext]_vars

\* ------------------------------------------------------- store failures
\* the store calls of each method, in the order the method makes them
AddTaskCalls == <<"push", "lrange", "setex">>
GetNextTaskCalls == <<"brpop", "setex">>
SaveResultCalls == <<"setex_result", "setex_status", "incr", "incrby", "expire">>

\* the calls a method has completed when `failing` raises
CompletedBefore(calls, failing) ==
    {calls[i] : i \in {j \in 1..Len(calls) :
                          \E k \in (j + 1)..Len(calls) : calls[k] = failing}}

\* add_task, a store call raises (redis.ConnectionError): the exception
\* leaves add_task with the earlier calls done and nothing undone
AddTaskFails ==
    \E task_type \in TaskTypes, data \in Payloads, priority \in Priorities,
       n \in 1..Len(AddTaskCalls) :
        /\ issued < MaxTasks
        /\ LET completed == CompletedBefore(AddTaskCalls, AddTaskCalls[n])
               task_id == issued + 1
               task_data == [task_id |-> task_id, type |-> task_type,
                             client_id |-> ClientId, data |-> data,
                             priority |-> priority, created_at |-> UtcNow,
                             status |-> "queued"]
           IN IF "push" \in completed
              THEN /\ queue' = InsertByPriority(queue, task_data)
                   /\ issued' = task_id
                   /\ priority_of' = [priority_of EXCEPT ![task_id] = <<priority>>]
              ELSE UNCHANGED <<queue, issued, priority_of>>
        /\ ret' = [op |-> "add_task", raised |-> "ConnectionError",
                   call |-> AddTaskCalls[n]]
        /\ UNCHANGED <<status, status_log, result, processed_today,
                       total_processed, delivered>>
        /\ faults < MaxFaults
        /\ faults' = faults + 1
        /\ UNCHANGED <<worker_vars, client_vars>>

\* get_next_task, a store call raises: when it is the SETEX, the task has
\* been popped and is not returned
GetNextTaskFails ==
    \E n \in 1..Len(GetNextTaskCalls) :
        /\ LET completed == CompletedBefore(GetNextTaskCalls, GetNextTaskCalls[n])
           IN IF "brpop" \in completed
              THEN /\ BRPopValue(queue) # Nil
                   /\ queue' = BRPopRest(queue)
              ELSE UNCHANGED queue
        /\ ret' = [op |-> "get_next_task", raised |-> "ConnectionError",
                   call |-> GetNextTaskCalls[n]]
        /\ UNCHANGED <<status, status_log, result, processed_today,
                       total_processed, issued, delivered, priority_of>>
        /\ faults < MaxFaults
        /\ faults' = faults + 1
        /\ UNCHANGED <<worker_vars, client_vars>>

\* save_result, a store call raises
SaveResultFails ==
    \E i \in 1..Len(delivered), results \in Results,
       n \in 1..Len(SaveResultCalls) :
        /\ total_processed < MaxSaves
        /\ processed_today < MaxSaves
        /\ LET completed == CompletedBefore(SaveResultCalls, SaveResultCalls[n])
               task_id == delivered[i]
               result_data == [task_id |-> task_id, client_id |-> ClientId,
                               results |-> results, completed_at |-> UtcNow,
                               status |-> "completed"]
               status_data == [status |-> SavedStatus(results),
                               completed_at |-> result_data.completed_at]
           IN /\ result' = IF "setex_result" \in completed
                           THEN SetEx(result, task_id, result_data)
                           ELSE result
              /\ status' = IF "setex_status" \in completed
                           THEN SetEx(status, task_id, status_data)
                           ELSE status
              /\ status_log' = IF "setex_status" \in completed
                               THEN Logged(status_log, task_id, status_data.status)
                               ELSE status_log
              /\ processed_today' = IF "incr" \in completed
                                    THEN processed_today + 1
                                    ELSE processed_today
              /\ total_processed' = IF "incrby" \in completed
                                    THEN total_processed + 1
                                    ELSE total_processed
              /\ ret' = [op |-> "save_result", task_id |-> task_id,
                         raised |-> "ConnectionError",
                         call |-> SaveResultCalls[n]]
        /\ UNCHANGED <<queue, issued, delivered, priority_of>>
        /\ faults < MaxFaults
        /\ faults' = faults + 1
        /\ UNCHANGED <<worker_vars, client_vars>>

\* QueueManager under any caller, over a store that can be unreachable
FaultNext ==
    \/ AddTask
    \/ AddTaskFails
    \/ GetNextTaskSome
    \/ GetNextTaskNone
    \/ GetNextTaskFails
    \/ SaveResult
    \/ SaveResultFails
    \/ GetResult
    \/ ExpireStatus
    \/ ExpireResult

FaultSpec == Init /\ [][FaultNext]_vars

\* ------------------------------------------- callers running side by side
\* Several processes use the store at once; each Redis command is atomic and
\* the commands of different callers interleave.  add_task is its three
\* commands (push, LRANGE, SETEX), get_next_task its two (BRPOP, SETEX).

\* add_task, lines 36-52: the task is built and pushed.  Neither add_task
\* nor get_next_task reads the type or the payload, so one of each is drawn.
SubmitPush ==
    \E task_type \in {"product_analysis"}, data \in {"complete"},
       priority \in Priorities :
        /\ submit = Nil
        /\ issued < MaxTasks
        /\ LET task_id == issued + 1
               task_data == [task_id |-> task_id, type |-> task_type,
                             client_id |-> ClientId, data |-> data,
                             priority |-> priority, created_at |-> UtcNow,
                             status |-> "queued"]
           IN /\ queue' = InsertByPriority(queue, task_data)
              /\ issued' = task_id
              /\ priority_of' = [priority_of EXCEPT ![task_id] = <<priority>>]
              /\ submit' = <<[pc |-> "lrange", task |-> task_data]>>
        /\ UNCHANGED <<status, status_log, result, processed_today,
                       total_processed, delivered, ret, workers>>
        /\ UNCHANGED <<worker_vars, faults>>

\* add_task, line 58: get_queue_position reads the list
SubmitPosition ==
    /\ submit # Nil
    /\ submit[1].pc = "lrange"
    /\ submit' = <<[pc |-> "setex", task |-> submit[1].task,
                    queue_position |->
                        get_queue_position(queue, submit[1].task.task_id)]>>
    /\ UNCHANGED <<queue, status, status_log, result, processed_today,
                   total_processed, issued, delivered, priority_of, ret,
                   workers>>
    /\ UNCHANGED <<worker_vars, faults>>

\* add_task, lines 61-68: the status record is written, the id returned
SubmitStatus ==
    /\ submit # Nil
    /\ submit[1].pc = "setex"
    /\ LET task_id == submit[1].task.task_id
           status_data == [status |-> "queued",
                           created_at |-> submit[1].task.created_at,
                           queue_position |-> submit[1].queue_position]
       IN /\ status' = SetEx(status, task_id, status_data)
          /\ status_log' = Logged(status_log, task_id, "queued")
          /\ ret' = [op |-> "add_task", task_id |-> task_id]
    /\ submit' = Nil
    /\ UNCHANGED <<queue, result, processed_today, total_processed, issued,
                   delivered, priority_of, workers>>
    /\ UNCHANGED <<worker_vars, faults>>

\* get_next_task, line 73: BRPOP gives worker w a task
WorkerPop ==
    \E w \in Workers :
        /\ workers[w].pc = "idle"
        /\ BRPopValue(queue) # Nil
        /\ queue' = BRPopRest(queue)
        /\ workers' = [workers EXCEPT ![w].pc = "setex",
                                      ![w].task = BRPopValue(queue)]
        /\ UNCHANGED <<status, status_log, result, processed_today,
                       total_processed, issued, delivered, priority_of, ret,
                       submit>>
        /\ UNCHANGED <<worker_vars, faults>>

\* get_next_task, lines 73 and 94: BRPOP times out, None is returned
WorkerPopNone ==
    \E w \in Workers :
        /\ workers[w].pc = "idle"
        /\ BRPopValue(queue) = Nil
        /\ ret' = [op |-> "get_next_task", task |-> Nil, worker |-> w]
        /\ UNCHANGED <<queue, status, status_log, result, processed_today,
                       total_processed, issued, delivered, priority_of,
                       workers, submit>>
        /\ UNCHANGED <<worker_vars, faults>>

\* get_next_task, lines 79-92: the status is written, the task returned
WorkerMark ==
    \E w \in Workers :
        /\ workers[w].pc = "setex"
        /\ LET task == workers[w].task[1]
               status_data == [status |-> "processing", started_at |-> UtcNow,
                               queue_position |-> "0"]
           IN /\ status' = SetEx(status, task.task_id, status_data)
              /\ status_log' = Logged(status_log, task.task_id, "processing")
              /\ delivered' = Append(delivered, task.task_id)
              /\ workers' = [workers EXCEPT ![w].pc = "idle",
                                            ![w].task = Nil,
                                            ![w].got = Append(@, task.task_id)]
              /\ ret' = [op |-> "get_next_task", task |-> <<task>>,
                         worker |-> w]
        /\ UNCHANGED <<queue, result, processed_today, total_processed,
                       issued, priority_of, submit>>
        /\ UNCHANGED <<worker_vars, faults>>

\* one submitter and NumWorkers workers on the shared store
WorkersNext ==
    \/ SubmitPush
    \/ SubmitPosition
    \/ SubmitStatus
    \/ WorkerPop
    \/ WorkerPopNone
    \/ WorkerMark

WorkersSpec == Init /\ [][WorkersNext]_vars

\* ------------------------------------------------------------ the worker
\* the methods class QueueManager defines
QueueManagerMethods ==
    {"__init__", "_init_stats", "add_task", "get_next_task", "save_result",
     "get_result", "_get_status_message", "get_queue_position",
     "get_queue_size", "_update_stats", "get_stats"}

\* queue_processor, line 124, and the range of its for loop, line 134
max_restarts == 10
BatchSize == 10

RECURSIVE Pow2(_)
Pow2(n) == IF n = 0 THEN 1 ELSE 2 * Pow2(n - 1)

Min(a, b) == IF a < b THEN a ELSE b

\* queue_processor, lines 151-157: the sleep that ends an iteration
IdleSleep_uncapped(restart_attempts) == Pow2(restart_attempts)

IdleSleep(restart_attempts) == Min(30, Pow2(restart_attempts))

\* the handler call of lines 192-199 raises: the payload lacks the key read
DispatchRaises(task) ==
    /\ task.type \in {"product_analysis", "keyword_analysis"}
    /\ task.data = "missing_key"

\* queue_processor, lines 136-140: what the for loop does with the value
\* process_next_task returned; `logged` is the exception process_next_task
\* caught and logged at line 227
AfterCall_counting(q, processed, logged) ==
    [q EXCEPT !.processed = processed, !.logged = logged,
              !.pc = "after_batch",
              !.restart_attempts = IF logged = "none" THEN @ ELSE @ + 1]

AfterCall(q, processed, logged) ==
    IF processed
    THEN [q EXCEPT !.processed = TRUE, !.logged = logged,
                   !.processed_count = @ + 1, !.tried = @ + 1,
                   !.pc = IF q.tried + 1 = BatchSize THEN "after_batch"
                          ELSE "batch"]
    ELSE [q EXCEPT !.processed = FALSE, !.logged = logged,
                   !.pc = "after_batch"]

\* queue_processor, lines 126-131: the while test and the start of an
\* iteration
QPIterate_forever ==
    /\ qp.pc = "loop"
    /\ qp' = [qp EXCEPT !.pc = "batch", !.processed_count = 0,
                        !.error_count = 0, !.tried = 0]
    /\ UNCHANGED <<queue, status, result, processed_today, total_processed,
                   issued, delivered, priority_of, status_log, ret,
                   raising_taken, client_vars, faults>>

QPIterate ==
    /\ qp.pc = "loop"
    /\ qp' = IF qp.restart_attempts < max_restarts
             THEN [qp EXCEPT !.pc = "batch", !.processed_count = 0,
                             !.error_count = 0, !.tried = 0]
             ELSE [qp EXCEPT !.pc = "stopped"]
    /\ UNCHANGED <<queue, status, result, processed_today, total_processed,
                   issued, delivered, priority_of, status_log, ret,
                   raising_taken, client_vars, faults>>

\* process_next_task(), a task is popped.  get_next_task runs; then line 186
\* looks up queue_manager.update_task_status, which the class does not
\* define: AttributeError, raised outside the inner try, is caught at line
\* 226 and the function returns False.  Lines 188-224 (dispatch, saving the
\* results, the inner handler) are not reached.
ProcessNextTaskSome ==
    /\ qp.pc = "batch"
    /\ BRPopValue(queue) # Nil
    /\ "update_task_status" \notin QueueManagerMethods
    /\ LET task == BRPopValue(queue)[1]
           status_data == [status |-> "processing", started_at |-> UtcNow,
                           queue_position |-> "0"]
       IN /\ queue' = BRPopRest(queue)
          /\ status' = SetEx(status, task.task_id, status_data)
          /\ status_log' = Logged(status_log, task.task_id, "processing")
          /\ delivered' = Append(delivered, task.task_id)
          /\ raising_taken' = (raising_taken \/ DispatchRaises(task))
          /\ ret' = [op |-> "process_next_task", task |-> <<task>>,
                     value |-> FALSE, caught |-> "AttributeError"]
          /\ qp' = AfterCall(qp, FALSE, "AttributeError")
    /\ UNCHANGED <<result, processed_today, total_processed, issued,
                   priority_of, client_vars, faults>>

\* process_next_task(), get_next_task returned None: return False
ProcessNextTaskNone ==
    /\ qp.pc = "batch"
    /\ BRPopValue(queue) = Nil
    /\ ret' = [op |-> "process_next_task", task |-> Nil, value |-> FALSE,
               caught |-> "none"]
    /\ qp' = AfterCall(qp, FALSE, "none")
    /\ UNCHANGED <<queue, status, result, processed_today, total_processed,
                   issued, delivered, priority_of, status_log,
                   raising_taken, client_vars, faults>>

\* process_next_task(), a store call of get_next_task raises (the store is
\* unreachable): the exception is caught at line 226, return False.  When
\* it is the SETEX that raises, the task has already been popped.
ProcessNextTaskStoreDown ==
    \E call \in {"brpop", "setex"} :
        /\ qp.pc = "batch"
        /\ faults < MaxFaults
        /\ faults' = faults + 1
        /\ call = "setex" => BRPopValue(queue) # Nil
        /\ queue' = IF call = "setex" THEN BRPopRest(queue) ELSE queue
        /\ ret' = [op |-> "process_next_task", task |-> Nil, value |-> FALSE,
                   caught |-> "ConnectionError"]
        /\ qp' = AfterCall(qp, FALSE, "ConnectionError")
        /\ UNCHANGED <<status, result, processed_today, total_processed,
                       issued, delivered, priority_of, status_log,
                       raising_taken, client_vars>>

\* queue_processor, lines 147-157: the end of an iteration
QPSleep ==
    /\ qp.pc = "after_batch"
    /\ qp' = IF qp.processed_count = 0
             THEN [qp EXCEPT !.pc = "loop",
                             !.sleep_time = IdleSleep(qp.restart_attempts)]
             ELSE [qp EXCEPT !.pc = "loop", !.restart_attempts = 0,
                             !.sleep_time = 1]
    /\ UNCHANGED <<queue, status, result, processed_today, total_processed,
                   issued, delivered, priority_of, status_log, ret,
                   raising_taken, client_vars, faults>>

\* the program of main.py: clients submit and poll, the worker loop runs
WorkerNext ==
    \/ AddTask
    \/ QPIterate
    \/ ProcessNextTaskSome
    \/ ProcessNextTaskNone
    \/ ProcessNextTaskStoreDown
    \/ QPSleep
    \/ GetResult
    \/ ExpireStatus

WorkerSpec == Init /\ [][WorkerNext]_vars

\* ------------------------------------- the outer guard of queue_processor
\* queue_processor, line 166: the wait before the loop is tried again
WaitTime_doubling(restart_attempts) ==
    IF restart_attempts = 0 THEN 0 ELSE 30 * Pow2(restart_attempts - 1)

WaitTime(restart_attempts) == Min(300, 30 * restart_attempts)

\* queue_processor, lines 159-168: an exception raised by a statement of
\* the outer try that no inner handler covers (the logging and sleeping of
\* lines 147-157; process_next_task itself catches every Exception) reaches
\* the outer guard
QPCatastrophic ==
    /\ qp.pc = "after_batch"
    /\ LET restart_attempts == qp.restart_attempts + 1
       IN qp' = [qp EXCEPT !.pc = "loop", !.logged = "catastrophic",
                           !.restart_attempts = restart_attempts,
                           !.wait_time = WaitTime(restart_attempts)]
    /\ UNCHANGED <<queue, status, result, processed_today, total_processed,
                   issued, delivered, priority_of, status_log, ret,
                   raising_taken, client_vars, faults>>

\* the worker loop with a failing outer try, over a queue clients fill
ProcessorNext ==
    \/ AddTask
    \/ QPIterate
    \/ ProcessNextTaskSome
    \/ ProcessNextTaskNone
    \/ QPSleep
    \/ QPCatastrophic

ProcessorSpec == Init /\ [][ProcessorNext]_vars

\* -------------------------------------------------------------- the agent
\* A call returns a dict, kept as a record of its keys, or raises.
Raise(exception) == [raised |-> exception]
IsRaise(outcome) == "raised" \in DOMAIN outcome
IsDict(outcome) == ~IsRaise(outcome)

\* Python's binding of keyword arguments: a name that is not a parameter of
\* the function raises TypeError before the body runs
Binds(kwargs, parameters) == kwargs \subseteq parameters

\* try: body / except Exception as e: return fallback
Guarded_reraise(body, fallback) == body

Guarded(body, fallback) == IF IsRaise(body) THEN fallback ELSE body

\* str(e) of a caught exception
ErrorOf(body) == IF IsRaise(body) THEN body.raised ELSE "none"

\* product lists: their length, and whether the items are dicts
ProductLists == [len : 0..MaxProducts, items : {"dict", "str"}]

\* what the POST of _get_deepseek_analysis meets
AiOutcomes ==
    {"not_configured", "ok", "error_response", "malformed", "null_content",
     "exception"}

\* AmazonAgent._get_deepseek_analysis: the text it returns; a 200 response
\* whose content is null gives None
get_deepseek_analysis(ai) ==
    CASE ai = "not_configured" ->
             [type |-> "str", text |-> "Analysis service not configured."]
      [] ai = "ok" -> [type |-> "str", text |-> "content"]
      [] ai = "null_content" -> [type |-> "NoneType", text |-> "None"]
      [] ai = "error_response" -> [type |-> "str", text |-> "API Error"]
      [] ai \in {"malformed", "exception"} ->
             [type |-> "str", text |-> "Request failed"]

\* AmazonAgent._prepare_product_context: product.get on an item that is not
\* a dict raises
prepare_product_context(products) ==
    IF products.len > 0 /\ products.items # "dict"
    THEN Raise("AttributeError")
    ELSE [type |-> "str", text |-> "context"]

\* AmazonAgent.analyze_products(self, products)
analyze_products(kwargs, products, ai) ==
    IF ~Binds(kwargs, {"products"}) THEN Raise("TypeError")
    ELSE LET product_context == prepare_product_context(products)
             analysis == get_deepseek_analysis(ai)
             body ==
                 IF IsRaise(product_context) THEN product_context
                 ELSE IF analysis.type # "str"
                 THEN Raise("AttributeError")   \* analysis.split, line 237
                 ELSE [status |-> "success",
                       products_analyzed |-> products.len,
                       analysis |-> analysis.text,
                       insights |-> "lines of analysis",
                       recommendations |-> "advice from analysis",
                       timestamp |-> UtcNow]
         IN Guarded(body, [status |-> "error", error |-> ErrorOf(body)])

\* what apify_client.scrape_amazon_products meets; "import_error" is the
\* import of line 82 of agent.py failing
ScrapeOutcomes ==
    {"import_error", "no_token", "actor_error", "timeout", "exception",
     "found"}

\* ApifyClient.scrape_amazon_products(keyword, max_products): `total`
\* products were processed
scrape_amazon_products(scrape, total, max_products) ==
    CASE scrape = "import_error" -> Raise("ImportError")
      [] scrape = "found" ->
             [success |-> TRUE, total_products |-> total,
              products |-> [len |-> Min(total, max_products),
                            items |-> "dict"],
              scraper_used |-> "scraper-engine/amazon-search-scraper",
              run_id |-> "run"]
      [] scrape = "no_token" ->
             [success |-> FALSE, error |-> "APIFY_TOKEN not configured",
              products |-> [len |-> 0, items |-> "dict"]]
      [] scrape = "actor_error" ->
             [success |-> FALSE, error |-> "Actor error",
              products |-> [len |-> 0, items |-> "dict"]]
      [] scrape = "timeout" ->
             [success |-> FALSE, error |-> "Scraping timeout",
              products |-> [len |-> 0, items |-> "dict"]]
      [] scrape = "exception" ->
             [success |-> FALSE, error |-> "Exception",
              products |-> [len |-> 0, items |-> "dict"]]

\* memory_manager.learn_from_analysis as analyze_keyword calls it, lines
\* 117-129: only for a non-empty client_id, inside its own try
learn_from_analysis(client_id, memory) ==
    LET body == IF client_id # "" /\ memory = "raises"
                THEN Raise("Exception")
                ELSE [learned |-> client_id # ""]
    IN Guarded(body, [learned |-> FALSE, warning |-> ErrorOf(body)])

\* AmazonAgent.analyze_keyword(self, keyword, client_id, max_products)
analyze_keyword(kwargs, client_id, max_products, scrape, total, ai, memory) ==
    IF ~Binds(kwargs, {"keyword", "client_id", "max_products"})
    THEN Raise("TypeError")
    ELSE LET scrape_result ==
                 scrape_amazon_products(scrape, total, max_products)
             body ==
                 IF IsRaise(scrape_result) THEN scrape_result
                 ELSE IF ~scrape_result.success
                 THEN [status |-> "error",
                       error |-> <<"Scraping failed", scrape_result.error>>,
                       keyword |-> "keyword", client_id |-> client_id]
                 ELSE IF scrape_result.products.len = 0
                 THEN [status |-> "success",
                       message |-> "No products found for this keyword",
                       keyword |-> "keyword", client_id |-> client_id,
                       products_analyzed |-> 0,
                       scraping_stats |->
                           [products_found |-> 0,
                            scraper_used |-> scrape_result.scraper_used]]
                 ELSE IF IsRaise(learn_from_analysis(client_id, memory))
                 THEN learn_from_analysis(client_id, memory)
                 ELSE [status |-> "success", client_id |-> client_id,
                       keyword |-> "keyword",
                       scraping_stats |->
                           [products_found |-> scrape_result.total_products,
                            scraper_used |-> scrape_result.scraper_used,
                            run_id |-> scrape_result.run_id],
                       analysis |-> analyze_products({"products"},
                                        scrape_result.products, ai),
                       sample_products |->
                           Min(3, scrape_result.products.len),
                       timestamp |-> UtcNow]
         IN Guarded(body, [status |-> "error", error |-> ErrorOf(body),
                           keyword |-> "keyword", client_id |-> client_id])

\* a caller awaits agent.analyze_products
AnalyzeProducts ==
    \E kwargs \in {{"products"}, {"products", "client_id"}},
       products \in ProductLists, ai \in AiOutcomes :
        /\ ret' = [op |-> "analyze_products", kwargs |-> kwargs,
                   products |-> products, ai |-> ai,
                   value |-> analyze_products(kwargs, products, ai)]
        /\ UNCHANGED <<store, issued, delivered, priority_of, status_log,
                       worker_vars, client_vars, faults>>

\* a caller awaits agent.analyze_keyword
AnalyzeKeyword ==
    \E kwargs \in {{"keyword", "client_id", "max_products"},
                   {"keyword", "client_id", "max_products", "investment"}},
       client_id \in {"", ClientId}, max_products \in {1, 50},
       scrape \in ScrapeOutcomes, total \in 0..MaxProducts,
       ai \in AiOutcomes, memory \in {"ok", "raises"} :
        /\ scrape # "found" => total = 0
        /\ ret' = [op |-> "analyze_keyword", kwargs |-> kwargs,
                   client_id |-> client_id, max_products |-> max_products,
                   scrape |-> scrape, total |-> total, ai |-> ai,
                   memory |-> memory,
                   value |-> analyze_keyword(kwargs, client_id, max_products,
                                             scrape, total, ai, memory)]
        /\ UNCHANGED <<store, issued, delivered, priority_of, status_log,
                       worker_vars, client_vars, faults>>

AgentNext ==
    \/ AnalyzeProducts
    \/ AnalyzeKeyword

AgentSpec == Init /\ [][AgentNext]_vars

\* ================================================================ claims
IsHigh(task_id) == priority_of[task_id] = <<"high">>
IsNormal(task_id) == priority_of[task_id] = <<"normal">>
Pending == {queue[i].task_id : i \in 1..Len(queue)}
Returned == {delivered[i] : i \in 1..Len(delivered)}
JustPopped == ret.op = "get_next_task" /\ ret.task # Nil

RECURSIVE IsSubsequence(_, _)
IsSubsequence(s, t) ==
    IF s = <<>> THEN TRUE
    ELSE IF t = <<>> THEN FALSE
    ELSE IF Head(s) = Head(t) THEN IsSubsequence(Tail(s), Tail(t))
    ELSE IsSubsequence(s, Tail(t))

\* C1: priority ordering.  Whenever get_next_task returns a normal task, no
\* high task is pending: every high task is returned before any normal task
\* that was pending together with it.
C1_HighBeforeNormal ==
    (JustPopped /\ ret.task[1].priority = "normal")
        => \A t \in Pending : ~IsHigh(t)

\* C2: FIFO among normal tasks.  Whenever get_next_task returns a normal
\* task, no normal task that was enqueued before it is still pending.
C2_NormalFifo ==
    (JustPopped /\ ret.task[1].priority = "normal")
        => \A t \in Pending : IsNormal(t) => t > ret.task[1].task_id

\* C3: FIFO within the high tier.  High tasks are returned in the order they
\* were enqueued: the returned high tasks appear in increasing enqueue order
\* and every pending high task was enqueued after every returned one.
C3_HighFifo ==
    /\ \A i, j \in 1..Len(delivered) :
           (i < j /\ IsHigh(delivered[i]) /\ IsHigh(delivered[j]))
               => delivered[i] < delivered[j]
    /\ \A d \in Returned, t \in Pending :
           (IsHigh(d) /\ IsHigh(t)) => d < t

\* C3 witness: a high task has just been returned while a high task enqueued
\* after it is pending.
C3_Witness ==
    /\ JustPopped
    /\ ret.task[1].priority = "high"
    /\ \E t \in Pending : IsHigh(t) /\ t > ret.task[1].task_id

C5_ProcessedTaskIsTerminal ==
    (ret.op = "process_next_task" /\ ret.task # Nil)
        => LET t == ret.task[1].task_id
           IN /\ result[t] # Nil
              /\ status[t] # Nil
              /\ status[t][1].status \in {"completed", "failed"}

\* C6: a raising handler yields a failure result.  When process_next_task
\* has returned for a task whose dispatch raises (its payload lacks the key
\* the handler call reads), nothing was propagated, the stored result is of
\* the form {error, status: failed}, and get_result returns that result.
C6_RaisingHandlerRecorded ==
    (/\ ret.op = "process_next_task"
     /\ ret.task # Nil
     /\ ret.task[1].type \in {"product_analysis", "keyword_analysis"}
     /\ ret.task[1].data = "missing_key")
        => LET t == ret.task[1].task_id
           IN /\ result[t] # Nil
              /\ result[t][1].results = ResultFailed
              /\ get_result(result, status, t).kind = "result"

\* C7: save_result tells failure from success.  Right after save_result the
\* status record reads failed when the results carry an error marker and
\* completed otherwise, and the result record carries the same status.
C7_SavedStatusFollowsError ==
    ret.op = "save_result"
        => LET t == ret.task_id
           IN /\ status[t][1].status =
                     (IF result[t][1].results.error THEN "failed" ELSE "completed")
              /\ result[t][1].status = status[t][1].status

\* C8: a result is written once.  A result record that exists is never
\* replaced by a different one; it only disappears by expiry.
C8_ResultImmutable ==
    [][\A t \in TaskIds :
           result[t] # Nil => (result'[t] = result[t] \/ result'[t] = Nil)]_vars

\* C9: get_result is idempotent.  A get_result call leaves the queue, the
\* status records, the result records and the counters as they were, and
\* the same call made again returns the value it returned.
C9_GetResultIdempotent ==
    [][(ret' # ret /\ ret'.op = "get_result")
           => /\ store' = store
              /\ get_result(result', status', ret'.task_id) = ret'.value]_vars

\* C9 witness: get_result has returned the result of a completed task.
C9_Witness ==
    /\ ret.op = "get_result"
    /\ ret.value.kind = "result"
    /\ ret.task_id \in Returned

\* C10: get_result precedence.  The value get_result returned is the result
\* record when one exists; otherwise a snapshot of the status record when
\* one exists; otherwise None.
C10_GetResultPrecedence ==
    ret.op = "get_result"
        => LET t == ret.task_id
               v == ret.value
           IN /\ result[t] # Nil => (v.kind = "result" /\ v.doc = result[t][1])
              /\ (result[t] = Nil /\ status[t] # Nil)
                     => /\ v.kind = "snapshot"
                        /\ v.task_id = t
                        /\ v.status = status[t][1].status
                        /\ v.message = StatusMessage(status[t][1])
                        /\ v.queue_position = QueuePositionOf(status[t][1])
              /\ (result[t] = Nil /\ status[t] = Nil) => v.kind = "None"

\* C10 witness: get_result returned the result record of a task whose status
\* record exists as well.
C10_Witness ==
    /\ ret.op = "get_result"
    /\ result[ret.task_id] # Nil
    /\ status[ret.task_id] # Nil
    /\ ret.value.kind = "result"

\* C11: unknown task id.  get_result called with a task id that no add_task
\* call has returned gives None.
C11_UnknownIdNotFound ==
    (ret.op = "get_result" /\ ret.task_id > issued)
        => ret.value.kind = "None"

\* C11 witness: get_result was called with a never-issued id while the store
\* holds a status record and a result record of another task.
C11_Witness ==
    /\ ret.op = "get_result"
    /\ ret.task_id > issued
    /\ \E t \in TaskIds : result[t] # Nil /\ status[t] # Nil

\* C12: worker resilience.  After the worker has taken a task whose handler
\* raises, the loop is still running and the next task it takes is
\* processed: when process_next_task has returned for it, its result is
\* stored.
C12_NextTaskProcessedAfterRaise ==
    (/\ raising_taken
     /\ ret.op = "process_next_task"
     /\ ret.task # Nil
     /\ ~DispatchRaises(ret.task[1]))
        => /\ qp.pc # "stopped"
           /\ result[ret.task[1].task_id] # Nil

\* C13: unknown task type.  When process_next_task has returned for a task
\* whose type is neither product_analysis nor keyword_analysis, the failure
\* result {error, status: failed} is stored for it and the loop goes on.
C13_UnknownTypeRecorded ==
    (/\ ret.op = "process_next_task"
     /\ ret.task # Nil
     /\ ret.task[1].type \notin {"product_analysis", "keyword_analysis"})
        => /\ result[ret.task[1].task_id] # Nil
           /\ result[ret.task[1].task_id][1].results = ResultFailed
           /\ qp.pc # "stopped"

\* C19: store loss is told from an empty queue.  When an iteration of
\* queue_processor ended on a store failure in get_next_task, the value
\* process_next_task returned and the sleep queue_processor applied are not
\* both the ones an empty queue gives (False, and the idle sleep).
C19_StoreLossDistinct ==
    (qp.pc = "loop" /\ qp.logged = "ConnectionError")
        => <<qp.processed, qp.sleep_time>>
               # <<FALSE, IdleSleep(qp.restart_attempts)>>

\* tasks that have been inserted into the pending queue
Inserted == {t \in TaskIds : priority_of[t] # Nil}

\* C15: dequeue is atomic with the status change.  No task that has been
\* removed from the pending queue has a status record that still reads
\* queued.
C15_DequeuedNotQueued ==
    \A t \in Inserted \ Pending :
        status[t] # Nil => status[t][1].status # "queued"

\* C16: every pending task has a status record.  Each task in the pending
\* queue has a status record and it reads queued.
C16_PendingHasQueuedStatus ==
    \A t \in Pending : status[t] # Nil /\ status[t][1].status = "queued"

\* C17: a result exists only for terminal tasks.  Whenever a task has a
\* result record, its status record reads completed or failed.
C17_ResultOnlyWhenTerminal ==
    \A t \in TaskIds :
        (result[t] # Nil /\ status[t] # Nil)
            => status[t][1].status \in {"completed", "failed"}

\* C18: a failed admission queues nothing.  When add_task raises because a
\* store call failed, the pending queue and the status records are as they
\* were before the call.
C18_FailedAddLeavesNothing ==
    [][(ret'.op = "add_task" /\ "raised" \in DOMAIN ret')
           => (queue' = queue /\ status' = status)]_vars

\* C14: at-most-one delivery.  With several workers calling get_next_task
\* side by side, no task is returned twice: not to two workers and not
\* twice to one.
C14_AtMostOnceDelivery ==
    \A w1, w2 \in Workers :
        \A i \in 1..Len(workers[w1].got), j \in 1..Len(workers[w2].got) :
            workers[w1].got[i] = workers[w2].got[j] => (w1 = w2 /\ i = j)

\* C14 witness: one worker has been returned a task while another worker is
\* inside get_next_task, between its BRPOP and its SETEX, with another task.
C14_Witness ==
    \E w1, w2 \in Workers :
        /\ w1 # w2
        /\ workers[w1].got # <<>>
        /\ workers[w2].pc = "setex"
        /\ workers[w2].task[1].task_id \notin
               {workers[w1].got[i] : i \in 1..Len(workers[w1].got)}

\* C21: fail-stop.  Once restart_attempts has reached max_restarts the loop
\* of queue_processor exits: from then on the worker takes no step and no
\* task leaves the pending queue.  While the count is below max_restarts
\* the loop starts another iteration after its wait, and it exits at no
\* other count.
C21_FailStop ==
    [][/\ qp.pc = "stopped"
            => /\ qp' = qp
               /\ delivered' = delivered
               /\ Len(queue') >= Len(queue)
       /\ (qp.pc = "loop" /\ qp' # qp)
            => qp'.pc = IF qp.restart_attempts >= max_restarts
                        THEN "stopped" ELSE "batch"
       /\ qp'.pc = "stopped" => qp'.restart_attempts = max_restarts]_vars

\* the loop has exited and a task admitted since waits in the queue
C21_Witness ==
    /\ qp.pc = "stopped"
    /\ qp.restart_attempts = max_restarts
    /\ Len(queue) > 0

\* C22: the wait of the outer guard is bounded.  Each time an exception
\* reaches the outer guard the wait applied is at most 300 seconds and is
\* not less than the wait for the previous value of the counter.
C22_WaitBounded ==
    [][qp'.restart_attempts = qp.restart_attempts + 1
          => /\ qp'.wait_time = WaitTime(qp'.restart_attempts)
             /\ qp'.wait_time <= 300
             /\ qp'.wait_time >= WaitTime(qp.restart_attempts)]_vars

\* the outer guard has waited the maximum
C22_Witness ==
    /\ qp.logged = "catastrophic"
    /\ qp.restart_attempts = max_restarts
    /\ qp.wait_time = 300

\* C23: the backoff of the outer guard is exponential.  Below the maximum
\* wait, the wait after the n-th consecutive failure is to the wait after
\* the (n-1)-th as that one is to the wait after the (n-2)-th, and is
\* greater.
C23_ExponentialBackoff ==
    (/\ qp.logged = "catastrophic"
     /\ qp.restart_attempts >= 3
     /\ qp.wait_time < 300)
        => LET n == qp.restart_attempts
           IN /\ qp.wait_time > WaitTime(n - 1)
              /\ qp.wait_time * WaitTime(n - 2)
                     = WaitTime(n - 1) * WaitTime(n - 1)

\* C24: idle behaviour.  The sleep that ends an iteration which processed
\* no task is at most 30 seconds, leaves restart_attempts as it was and
\* below max_restarts, and returns to the while test, which then starts
\* the next iteration; process_next_task finding the queue empty neither
\* ends the loop nor changes restart_attempts.
C24_IdleBehaviour ==
    [][/\ (/\ qp.pc = "after_batch"
            /\ qp.processed_count = 0
            /\ qp' # qp
            /\ qp'.logged # "catastrophic")
            => /\ qp'.sleep_time <= 30
               /\ qp'.pc = "loop"
               /\ qp'.restart_attempts = qp.restart_attempts
               /\ qp'.restart_attempts < max_restarts
       /\ (qp.pc = "batch" /\ qp' # qp)
            => /\ qp'.pc \in {"batch", "after_batch"}
               /\ qp'.restart_attempts = qp.restart_attempts]_vars

\* an iteration that found the queue empty has ended with the longest idle
\* sleep
C24_Witness ==
    /\ qp.pc = "loop"
    /\ qp.logged = "none"
    /\ ret.op = "process_next_task"
    /\ ret.task = Nil
    /\ qp.sleep_time = 30

\* C25: no admitted task is lost.  With the store available, whenever
\* process_next_task has taken a task from the pending queue it returned
\* True, the value of the paths that ran the handler or the unknown-type
\* path for it.
C25_NoTaskLost ==
    (ret.op = "process_next_task" /\ ret.task # Nil /\ faults = 0)
        => ret.value = TRUE

\* C26: handler isolation.  Whatever the product list and whatever the AI
\* request met, analyze_products returns a dict with status completed and
\* count equal to the length of the list.
C26_AnalyzeProductsCompleted ==
    ret.op = "analyze_products"
        => /\ IsDict(ret.value)
           /\ ret.value.status = "completed"
           /\ "count" \in DOMAIN ret.value
           /\ ret.value.count = ret.products.len

\* C27: an empty or failed scrape is a success with zero results.  When the
\* scrape found nothing or reported failure, analyze_keyword, called with
\* the parameters it declares, returns status completed with scraped = 0.
C27_EmptyScrapeCompleted ==
    (/\ ret.op = "analyze_keyword"
     /\ Binds(ret.kwargs, {"keyword", "client_id", "max_products"})
     /\ ret.scrape # "import_error"
     /\ (ret.scrape = "found" => ret.total = 0))
        => /\ IsDict(ret.value)
           /\ ret.value.status = "completed"
           /\ "scraped" \in DOMAIN ret.value
           /\ ret.value.scraped = 0

\* C28: the result of a successful scrape.  When the scrape found n >= 1
\* products, analyze_keyword(keyword, client_id, max_products, investment)
\* returns status completed, the client_id it was given, the keyword,
\* scraped = n and analyzed = the count analyze_products returned.
C28_KeywordResult ==
    (/\ ret.op = "analyze_keyword"
     /\ "investment" \in ret.kwargs
     /\ ret.scrape = "found"
     /\ ret.total >= 1)
        => /\ IsDict(ret.value)
           /\ ret.value.status = "completed"
           /\ ret.value.client_id = ret.client_id
           /\ "search_keyword" \in DOMAIN ret.value
           /\ "scraped" \in DOMAIN ret.value
           /\ ret.value.scraped = ret.total
           /\ "analyzed" \in DOMAIN ret.value

\* C29: handler errors do not escape.  Whatever the AI request, the scrape
\* and the memory manager met, analyze_products and analyze_keyword, called
\* with the parameters they declare, return a dict and do not raise.
C29_HandlersReturnDict ==
    /\ (/\ ret.op = "analyze_products"
        /\ Binds(ret.kwargs, {"products"}))
           => IsDict(ret.value) /\ "status" \in DOMAIN ret.value
    /\ (/\ ret.op = "analyze_keyword"
        /\ Binds(ret.kwargs, {"keyword", "client_id", "max_products"}))
           => IsDict(ret.value) /\ "status" \in DOMAIN ret.value

\* analyze_keyword has returned after the scrape found products, the AI
\* request gave no text and the memory manager raised
C29_Witness ==
    /\ ret.op = "analyze_keyword"
    /\ Binds(ret.kwargs, {"keyword", "client_id", "max_products"})
    /\ ret.scrape = "found"
    /\ ret.total >= 1
    /\ ret.ai = "null_content"
    /\ ret.memory = "raises"
    /\ ret.client_id # ""
    /\ IsDict(ret.value)
    /\ ret.value.analysis.status = "error"

\* tasks taken from the queue for which save_result has not run yet
BeingProcessed ==
    {t \in Returned : status_log[t][Len(status_log[t])] = "processing"}

\* C30: not-found is kept for unknown and expired ids.  get_result called
\* for a task that is in the pending queue or being processed does not
\* return None: it returns a status snapshot, however long the task has
\* waited.
C30_PendingNeverNotFound ==
    (ret.op = "get_result" /\ ret.task_id \in Pending \cup BeingProcessed)
        => ret.value.kind = "snapshot"

\* C31: get_queue_position.  The value returned for a task in the pending
\* queue is its 1-based index counted from the left end of the list, the
\* value returned for any other id is 0, and the call changes nothing the
\* store holds.
C31_QueuePosition ==
    [][ret'.op = "get_queue_position"
          => LET t == ret'.task_id
                 v == ret'.value
             IN /\ UNCHANGED store
                /\ (t \in Pending) = (v # 0)
                /\ v # 0 => /\ v \in 1..Len(queue)
                            /\ queue[v].task_id = t]_vars

\* a task behind another one has been reported at position 2
C31_Witness ==
    /\ ret.op = "get_queue_position"
    /\ ret.value = 2
    /\ Len(queue) >= 2

\* C32: the processed counters.  get_stats reports the count of the current
\* UTC day and the cumulative total; save_result adds exactly one to each
\* and no other operation changes them, the daily one starting again at 0
\* when the day changes.
C32_StatsCountResults ==
    [][/\ ret'.op = "get_stats"
            => /\ ret'.value.processed_today = processed_today
               /\ "total_processed" \in DOMAIN ret'.value
               /\ ret'.value.total_processed = total_processed
       /\ ret'.op = "save_result"
            => /\ processed_today' = processed_today + 1
               /\ total_processed' = total_processed + 1
       /\ ret'.op \notin {"save_result", "midnight"}
            => UNCHANGED <<processed_today, total_processed>>
       /\ total_processed' >= total_processed]_vars

\* C33: the values of get_stats.  Every value get_stats returned is at
\* least 0, queue_size is the length of the pending queue and
\* avg_wait_seconds is queue_size times 10.
C33_StatsValues ==
    ret.op = "get_stats"
        => /\ ret.value.queue_size = Len(queue)
           /\ ret.value.avg_wait_seconds = ret.value.queue_size * 10
           /\ ret.value.queue_size >= 0
           /\ ret.value.active_workers >= 0
           /\ ret.value.processed_today >= 0
           /\ ret.value.avg_wait_seconds >= 0

\* get_stats has returned with tasks pending and results recorded today
C33_Witness ==
    /\ ret.op = "get_stats"
    /\ ret.value.queue_size >= 1
    /\ ret.value.processed_today >= 1

\* C34: position 1 is next.  The task get_next_task returns is the one
\* get_queue_position reported at position 1 just before the call.
C34_PositionOneIsNext ==
    [][(ret'.op = "get_next_task" /\ ret'.task # Nil /\ queue' # queue)
          => get_queue_position(queue, ret'.task[1].task_id) = 1]_vars

\* C35: the position in a snapshot is current.  When get_result returns a
\* snapshot for a task that is in the pending queue, its queue_position is
\* what get_queue_position gives for the task in that state.
C35_SnapshotPositionCurrent ==
    (/\ ret.op = "get_result"
     /\ ret.task_id \in Pending
     /\ ret.value.kind = "snapshot")
        => ret.value.queue_position
               = <<get_queue_position(queue, ret.task_id)>>

\* C36: get_next_task on an empty queue.  When the list is empty the call
\* returns None, raises nothing, and leaves the pending queue, the status
\* records, the result records and the counters as they were.
C36_EmptyDequeueFrame ==
    [][(ret'.op = "get_next_task" /\ queue = <<>>)
          => /\ ret'.task = Nil
             /\ "raised" \notin DOMAIN ret'
             /\ UNCHANGED store]_vars

\* get_next_task has returned None while the store holds records of tasks
\* taken earlier
C36_Witness ==
    /\ ret.op = "get_next_task"
    /\ ret.task = Nil
    /\ queue = <<>>
    /\ \E t \in TaskIds : status[t] # Nil /\ result[t] # Nil
    /\ total_processed > 0

\* tasks whose status record reads processing
Processing ==
    {t \in TaskIds : status[t] # Nil /\ status[t][1].status = "processing"}

\* C37: one task at a time.  At most one task has status processing, and
\* when the worker has taken a task every task it took earlier has a
\* recorded result.
C37_OneProcessing ==
    /\ Cardinality(Processing) <= 1
    /\ \A i \in 1..Len(delivered) - 1 : result[delivered[i]] # Nil

\* C38: task and store failures are not restarts.  An exception caught
\* inside process_next_task leaves restart_attempts as it was, and the
\* worker loop never reaches its exit.
C38_FailuresKeepCounter ==
    [][/\ (qp.pc = "batch" /\ qp' # qp)
            => /\ ret'.op = "process_next_task"
               /\ qp'.restart_attempts = qp.restart_attempts
               /\ qp'.pc = "after_batch"
       /\ qp'.restart_attempts = 0
       /\ qp'.pc # "stopped"]_vars

\* a task whose handler call would raise has been taken, an iteration in
\* which a store call of process_next_task raised has ended, and the loop
\* goes on with its counter at 0
C38_Witness ==
    /\ ret.op = "process_next_task"
    /\ ret.caught = "ConnectionError"
    /\ qp.logged = "ConnectionError"
    /\ qp.pc = "loop"
    /\ qp.restart_attempts = 0
    /\ raising_taken

====
